---- MODULE Spec2Model ----
(***************************************************************************)
(* Epidermis model (epidermis_proj.h): the MyCell agent, the bulk creator  *)
(* MyCellCreator, the three biology modules StemCell, TransitAmplifying    *)
(* and DifferentiatedCell, and the Simulate driver.                        *)
(*                                                                         *)
(* Diameters are doubles in the source; the model keeps the integer        *)
(* values around the thresholds 5, 8 and 10 that the modules compare with. *)
(* Coordinates drawn by Uniform(min, max) are integers of min..max.        *)
(***************************************************************************)
EXTENDS Integers, Sequences, FiniteSets, TLC

\* ---------------------------------------------------------------- bounds
MaxCoord == 1     \* bound space coordinates range over 0..MaxCoord
MaxCells == 2     \* num_cells handed to MyCellCreator ranges over 0..MaxCells
MaxGrow == 1      \* diameter changes the engine makes in the harness
MaxCalls == 2     \* Run calls of the module harness (SpecRun)
MaxSteps == 2     \* scheduler steps of the growing population (SpecGrow)

\* ------------------------------------------------------- program constants
kStem == 1
kTransitAmplifying == 2
kDifferentiated == 3
kSeedDiameter == 2
kSimulateSteps == 1

Diameters == {4, 5, 8, 10, 11}
CellTypes == {kStem, kTransitAmplifying, kDifferentiated}
Modules == {"StemCell", "TransitAmplifying", "DifferentiatedCell"}

\* A member that no constructor of the source writes holds whatever the
\* backend's default construction leaves: any of these values.
UnsetBool == BOOLEAN
UnsetInt == {-1, 0}

VARIABLES pc, min, max, num_cells, i, container, committed, commits,
          steps, todo, grows, calls, last

vars == <<pc, min, max, num_cells, i, container, committed, commits,
          steps, todo, grows, calls, last>>

NoCall == [bm |-> "none"]

\* ------------------------------------------------------------- MyCell
\* MyCellExt(position): Base(position); can_divide_ and cell_type_ are left
\* unwritten (u_div, u_type).
MyCell(position, u_div, u_type) ==
  [position |-> position, diameter |-> 0, cell_type |-> u_type,
   can_divide |-> u_div, bm |-> "none"]

SetDiameter(cell, d) == [cell EXCEPT !.diameter = d]
AddBiologyModule(cell, m) == [cell EXCEPT !.bm = m]
SetCellType(cell, t) == [cell EXCEPT !.cell_type = t]
SetCanDivide(cell, d) == [cell EXCEPT !.can_divide = d]
GetDiameter(cell) == cell.diameter
GetCellType(cell) == cell.cell_type
GetCanDivide(cell) == cell.can_divide

\* What a division may leave as a diameter of a cell that had diameter d:
\* Base(event, mother) and Base::EventHandler(event, daughter) belong to the
\* engine, which owns position and diameter and splits the mother's volume
\* between the two cells; neither comes out larger than the mother was.
Split(d) == {e \in Diameters \cup {d} : e <= d}

\* cell->Divide() on agent a of container c: the engine builds the daughter
\* with MyCellExt(event, mother), which copies can_divide_ and leaves
\* cell_type_ unwritten (u); the biology module is copied with the event
\* (gAllEventIds); the mother's EventHandler hands her to the engine; the
\* daughter is registered as the last agent of the container. Both cells
\* come out of the division with diameter d.
Divide(c, a, u, d) ==
  Append([c EXCEPT ![a] = SetDiameter(@, d)],
         [position |-> c[a].position, diameter |-> d, cell_type |-> u,
          can_divide |-> c[a].can_divide, bm |-> c[a].bm])

\* -------------------------------------------------------- construct_stem
construct_stem(position, u_div, u_type) ==
  SetCellType(AddBiologyModule(SetDiameter(MyCell(position, u_div, u_type),
                                           kSeedDiameter),
                               "StemCell"),
              kStem)

\* ------------------------------------------------------- MyCellCreator
\* random->Uniform(min, max): a value between the two arguments, whichever
\* is the larger
Uniform(lo, hi) == IF lo <= hi THEN lo .. hi ELSE hi .. lo

NewPositionBadZ(x, y) == <<x, y, x + 1>>
\* {x, y, z} with z = 0
NewPosition(x, y) == <<x, y, 0>>

LoopCondOffByOne(k, n) == k < n - 1
\* for (int i = 0; i < num_cells; i++)
LoopCond(k, n) == k < n

\* loop body: two draws, cell_builder, push_back
CreatorPush ==
  /\ pc = "create"
  /\ LoopCond(i, num_cells)
  /\ \E x \in Uniform(min, max), y \in Uniform(min, max), u \in UnsetBool :
       container' = Append(container,
                           construct_stem(NewPosition(x, y), u, 0))
  /\ i' = i + 1
  /\ last' = NoCall
  /\ UNCHANGED <<pc, min, max, num_cells, committed, commits, steps, todo,
                 grows, calls>>

\* container->Commit() after the loop
CreatorCommit ==
  /\ pc = "create"
  /\ ~LoopCond(i, num_cells)
  /\ commits' = commits + 1
  /\ committed' = Len(container)
  /\ pc' = "sim"
  /\ last' = NoCall
  /\ UNCHANGED <<min, max, num_cells, i, container, steps, todo, grows, calls>>

\* ---------------------------------------------------- biology modules
\* The shape the two dividing modules share, with the module's own type, its
\* two thresholds, the two daughter types and the daughter's flag left open:
\* Divide first, then two guarded daughter assignments, else the cell's own
\* flag.
DivideThenAssign(c, a, u, d, own, lo, hi, t1, t2, flag) ==
  LET c1 == Divide(c, a, u, d)
      cell == c1[a]
      daughter == Len(c1)
  IN  IF GetDiameter(cell) < lo /\ GetCellType(cell) = own
        THEN [c1 EXCEPT ![daughter] = SetCanDivide(SetCellType(@, t1), flag)]
      ELSE IF GetDiameter(cell) < hi /\ GetCellType(cell) = own
        THEN [c1 EXCEPT ![daughter] = SetCanDivide(SetCellType(@, t2), flag)]
      ELSE [c1 EXCEPT ![a] = SetCanDivide(@, FALSE)]

StemCell_Run_DaughterInactive(c, a, u, d) ==
  DivideThenAssign(c, a, u, d, kStem, 5, 8, kStem, kTransitAmplifying,
                   FALSE)
StemCell_Run_ReadsPopulation(c, a, u, d) ==
  DivideThenAssign(c, a, u, d, kStem, 5, 8, kStem, kTransitAmplifying,
                   Len(c) = 2)
StemCell_Run_ReactivatesMother(c, a, u, d) ==
  LET r == DivideThenAssign(c, a, u, d, kStem, 5, 8, kStem,
                            kTransitAmplifying, TRUE)
  IN  [r EXCEPT ![a] = SetCanDivide(@, TRUE)]
\* StemCell::Run
StemCell_Run(c, a, u, d) ==
  LET c1 == Divide(c, a, u, d)
      cell == c1[a]
      daughter == Len(c1)
  IN  IF GetDiameter(cell) < 5 /\ GetCellType(cell) = 1
        THEN [c1 EXCEPT ![daughter] = SetCanDivide(SetCellType(@, 1), TRUE)]
      ELSE IF GetDiameter(cell) < 8 /\ GetCellType(cell) = 1
        THEN [c1 EXCEPT ![daughter] = SetCanDivide(SetCellType(@, 2), TRUE)]
      ELSE [c1 EXCEPT ![a] = SetCanDivide(@, FALSE)]

TransitAmplifying_Run_WritesNeighbour(c, a, u, d) ==
  LET r == DivideThenAssign(c, a, u, d, kTransitAmplifying, 8, 10,
                            kTransitAmplifying, kDifferentiated, TRUE)
  IN  IF a = 1 THEN r ELSE [r EXCEPT ![1] = SetCanDivide(@, FALSE)]
\* TransitAmplifying::Run
TransitAmplifying_Run(c, a, u, d) ==
  LET c1 == Divide(c, a, u, d)
      cell == c1[a]
      daughter == Len(c1)
  IN  IF GetDiameter(cell) < 8 /\ GetCellType(cell) = 2
        THEN [c1 EXCEPT ![daughter] = SetCanDivide(SetCellType(@, 2), TRUE)]
      ELSE IF GetDiameter(cell) < 10 /\ GetCellType(cell) = 2
        THEN [c1 EXCEPT ![daughter] = SetCanDivide(SetCellType(@, 3), TRUE)]
      ELSE [c1 EXCEPT ![a] = SetCanDivide(@, FALSE)]

DifferentiatedCell_Run_Divides(c, a) ==
  Divide(c, a, kDifferentiated, GetDiameter(c[a]))
DifferentiatedCell_Run_TogglesFlag(c, a) ==
  IF GetDiameter(c[a]) > 10
    THEN [c EXCEPT ![a] = SetCanDivide(SetCellType(@, kDifferentiated),
                                       ~GetCanDivide(@))]
    ELSE c
\* DifferentiatedCell::Run
DifferentiatedCell_Run(c, a) ==
  IF GetDiameter(c[a]) > 10
    THEN [c EXCEPT ![a] = SetCellType(c[a], 3)]
    ELSE c

\* The scheduler runs the module attached to the agent.
Run(c, a, u, d) ==
  CASE c[a].bm = "StemCell" -> StemCell_Run(c, a, u, d)
    [] c[a].bm = "TransitAmplifying" -> TransitAmplifying_Run(c, a, u, d)
    [] OTHER -> DifferentiatedCell_Run(c, a)

\* What a Run call leaves in `last`: the module, the agent it ran on, the
\* agent as it was when Run was entered, the container size then, and the
\* diameter GetDiameter() returned to Run (after is the container Run left).
Called(m, a, after) == [bm |-> m, agent |-> a, pre |-> container[a],
                        size |-> Len(container),
                        read |-> GetDiameter(after[a])]

\* ------------------------------------------------------------ Simulate
\* Simulation<> simulation(...): the bounds of the space, an empty container.
\* MyCellCreator(param->min_bound_, param->max_bound_, n, construct_stem);
\* MyCellCreator takes the two bounds as they come, in either order.
Init ==
  /\ pc = "create"
  /\ min \in 0 .. MaxCoord
  /\ max \in 0 .. MaxCoord
  /\ num_cells \in 0 .. MaxCells
  /\ i = 0
  /\ container = <<>>
  /\ committed = 0
  /\ commits = 0
  /\ steps = 0
  /\ todo = {}
  /\ grows = 0
  /\ calls = 0
  /\ last = NoCall

\* GetScheduler()->Simulate(1): the step visits the agents committed so far
StepBegin ==
  /\ pc = "sim"
  /\ steps < kSimulateSteps
  /\ pc' = "step"
  /\ todo' = 1 .. committed
  /\ last' = NoCall
  /\ UNCHANGED <<min, max, num_cells, i, container, committed, commits,
                 steps, grows, calls>>

\* the step runs the biology module of agent a: Simulate attaches StemCell
\* to every agent it builds and a daughter carries its mother's module
StepStemCell(a) ==
  /\ pc = "step"
  /\ a \in todo
  /\ container[a].bm = "StemCell"
  /\ \E u \in UnsetInt, d \in Split(GetDiameter(container[a])) :
       container' = StemCell_Run(container, a, u, d)
  /\ todo' = todo \ {a}
  /\ last' = Called("StemCell", a, container')
  /\ UNCHANGED <<pc, min, max, num_cells, i, committed, commits, steps,
                 grows, calls>>

\* end of the step: the daughters created in it join the population
StepEnd ==
  /\ pc = "step"
  /\ todo = {}
  /\ committed' = Len(container)
  /\ steps' = steps + 1
  /\ pc' = "sim"
  /\ last' = NoCall
  /\ UNCHANGED <<min, max, num_cells, i, container, commits, todo, grows,
                 calls>>

Next ==
  \/ CreatorPush
  \/ CreatorCommit
  \/ StepBegin
  \/ \E a \in 1 .. Len(container) : StepStemCell(a)
  \/ StepEnd

Spec == Init /\ [][Next]_vars

\* ------------------------------------------------------ module harness
\* The three modules as operations on an agent in any state a caller can
\* build through the public surface of MyCell (SetDiameter, SetCellType,
\* SetCanDivide, AddBiologyModule): one agent, then its descendants.
InitRun ==
  /\ pc = "harness"
  /\ min = 0
  /\ max = 0
  /\ num_cells = 0
  /\ i = 0
  /\ \E d \in Diameters, t \in CellTypes, f \in BOOLEAN, m \in Modules :
       container = << SetCanDivide(SetCellType(AddBiologyModule(
                        SetDiameter(MyCell(NewPosition(0, 0), f, t), d), m),
                        t), f) >>
  /\ committed = 1
  /\ commits = 0
  /\ steps = 0
  /\ todo = {}
  /\ grows = 0
  /\ calls = 0
  /\ last = NoCall

CallStemCell(a) ==
  /\ pc = "harness"
  /\ calls < MaxCalls
  /\ a \in 1 .. Len(container)
  /\ container[a].bm = "StemCell"
  /\ \E u \in UnsetInt, d \in Split(GetDiameter(container[a])) :
       container' = StemCell_Run(container, a, u, d)
  /\ calls' = calls + 1
  /\ last' = Called("StemCell", a, container')
  /\ UNCHANGED <<pc, min, max, num_cells, i, committed, commits, steps,
                 todo, grows>>

CallTransitAmplifying(a) ==
  /\ pc = "harness"
  /\ calls < MaxCalls
  /\ a \in 1 .. Len(container)
  /\ container[a].bm = "TransitAmplifying"
  /\ \E u \in UnsetInt, d \in Split(GetDiameter(container[a])) :
       container' = TransitAmplifying_Run(container, a, u, d)
  /\ calls' = calls + 1
  /\ last' = Called("TransitAmplifying", a, container')
  /\ UNCHANGED <<pc, min, max, num_cells, i, committed, commits, steps,
                 todo, grows>>

CallDifferentiatedCell(a) ==
  /\ pc = "harness"
  /\ calls < MaxCalls
  /\ a \in 1 .. Len(container)
  /\ container[a].bm = "DifferentiatedCell"
  /\ container' = DifferentiatedCell_Run(container, a)
  /\ calls' = calls + 1
  /\ last' = Called("DifferentiatedCell", a, container')
  /\ UNCHANGED <<pc, min, max, num_cells, i, committed, commits, steps,
                 todo, grows>>

\* the engine owns the diameter: between two Run calls it may be any value
EngineSetDiameter(a, d) ==
  /\ pc = "harness"
  /\ grows < MaxGrow
  /\ a \in 1 .. Len(container)
  /\ d # GetDiameter(container[a])
  /\ container' = [container EXCEPT ![a] = SetDiameter(@, d)]
  /\ grows' = grows + 1
  /\ last' = NoCall
  /\ UNCHANGED <<pc, min, max, num_cells, i, committed, commits, steps,
                 todo, calls>>

NextRun ==
  \/ \E a \in 1 .. Len(container) : CallStemCell(a)
  \/ \E a \in 1 .. Len(container) : CallTransitAmplifying(a)
  \/ \E a \in 1 .. Len(container) : CallDifferentiatedCell(a)
  \/ \E a \in 1 .. Len(container), d \in Diameters : EngineSetDiameter(a, d)

SpecRun == InitRun /\ [][NextRun]_vars

\* ------------------------------------------------- two agents, one step
\* One scheduler step over two agents of any module, type, flag and
\* diameter, run in either order.  `last` keeps the container the step
\* started from and the calls made, in order, with what each division left.
InitPair ==
  /\ pc = "pair"
  /\ min = 0
  /\ max = 0
  /\ num_cells = 0
  /\ i = 0
  /\ \E d1 \in Diameters, t1 \in CellTypes, f1 \in BOOLEAN, m1 \in Modules,
        d2 \in Diameters, t2 \in CellTypes, f2 \in BOOLEAN, m2 \in Modules :
       container =
         << SetCanDivide(SetCellType(AddBiologyModule(
              SetDiameter(MyCell(NewPosition(0, 0), f1, t1), d1), m1), t1), f1),
            SetCanDivide(SetCellType(AddBiologyModule(
              SetDiameter(MyCell(NewPosition(1, 0), f2, t2), d2), m2), t2), f2)
         >>
  /\ committed = 2
  /\ commits = 0
  /\ steps = 0
  /\ todo = {1, 2}
  /\ grows = 0
  /\ calls = 0
  /\ last = [bm |-> "pair", start |-> container, order |-> <<>>]

PairRun(a) ==
  /\ pc = "pair"
  /\ a \in todo
  /\ \E u \in UnsetInt, d \in Split(GetDiameter(container[a])) :
       /\ container' = Run(container, a, u, d)
       /\ last' = [last EXCEPT
                     !.order = Append(@, [agent |-> a, u |-> u, d |-> d])]
  /\ todo' = todo \ {a}
  /\ UNCHANGED <<pc, min, max, num_cells, i, committed, commits, steps,
                 grows, calls>>

NextPair == \E a \in 1 .. 2 : PairRun(a)

SpecPair == InitPair /\ [][NextPair]_vars

\* -------------------------------------------------- growing population
\* Simulate with the scheduler asked for more than one step and the engine
\* growing the agents between steps: one agent seeded by construct_stem,
\* every daughter carrying the module of its mother.
InitGrow ==
  /\ pc = "create"
  /\ min = 0
  /\ max = 0
  /\ num_cells = 1
  /\ i = 0
  /\ container = <<>>
  /\ committed = 0
  /\ commits = 0
  /\ steps = 0
  /\ todo = {}
  /\ grows = 0
  /\ calls = 0
  /\ last = NoCall

\* GetScheduler()->Simulate(n)
StepBeginAgain ==
  /\ pc = "sim"
  /\ steps < MaxSteps
  /\ pc' = "step"
  /\ todo' = 1 .. committed
  /\ last' = NoCall
  /\ UNCHANGED <<min, max, num_cells, i, container, committed, commits,
                 steps, grows, calls>>

\* between two steps the engine, which owns the diameter, grows an agent
EngineGrow(a, d) ==
  /\ pc = "sim"
  /\ grows < MaxGrow
  /\ a \in 1 .. Len(container)
  /\ d > GetDiameter(container[a])
  /\ container' = [container EXCEPT ![a] = SetDiameter(@, d)]
  /\ grows' = grows + 1
  /\ last' = NoCall
  /\ UNCHANGED <<pc, min, max, num_cells, i, committed, commits, steps,
                 todo, calls>>

NextGrow ==
  \/ CreatorPush
  \/ CreatorCommit
  \/ StepBeginAgain
  \/ \E a \in 1 .. Len(container) : StepStemCell(a)
  \/ StepEnd
  \/ \E a \in 1 .. Len(container), d \in Diameters : EngineGrow(a, d)

SpecGrow == InitGrow /\ [][NextGrow]_vars

\* The scheduler takes its steps and the engine keeps running: whatever can
\* happen next does happen.
SpecGrowFair == InitGrow /\ [][NextGrow]_vars /\ WF_vars(NextGrow)

\* ================================================================ claims
\* The agent a Run call appended, when it appended one.
Daughter == container[Len(container)]
\* The agent the last Run call ran on, as it is now.
Mother == container[last.agent]
Divided == Len(container) = last.size + 1
RanOn(m, t) == last.bm = m /\ GetCellType(last.pre) = t

\* C1: a StemCell Run entered on a type-1 agent of diameter < 5 appends
\* exactly one agent, that daughter has type 1 and can_divide true, and the
\* mother's can_divide is what it was (still true when it was true).
C1_StemSelfRenewal ==
  (RanOn("StemCell", kStem) /\ GetDiameter(last.pre) < 5) =>
     /\ Divided
     /\ GetCellType(Daughter) = kStem
     /\ GetCanDivide(Daughter) = TRUE
     /\ GetCanDivide(Mother) = GetCanDivide(last.pre)

C1_Witness ==
  /\ RanOn("StemCell", kStem)
  /\ GetDiameter(last.pre) = 4
  /\ GetCanDivide(last.pre)
  /\ Divided
  /\ GetCanDivide(Mother)

\* C2: a StemCell Run entered on a type-1 agent with 5 <= diameter < 8
\* appends a daughter of type 2 with can_divide true.
C2_StemCommitment ==
  (RanOn("StemCell", kStem) /\ GetDiameter(last.pre) >= 5
                            /\ GetDiameter(last.pre) < 8) =>
     /\ Divided
     /\ GetCellType(Daughter) = kTransitAmplifying
     /\ GetCanDivide(Daughter) = TRUE

\* C3: a StemCell Run on a type-1 agent of diameter >= 8 appends no agent
\* and leaves the mother's can_divide false (stated for the mothers that
\* could still divide and for the calls that read the diameter the mother
\* entered with, so that it rests neither on C6 nor on what the division
\* does to the diameter).
C3_StemDeactivationNoDaughter ==
  (RanOn("StemCell", kStem) /\ GetDiameter(last.pre) >= 8
                            /\ last.read = GetDiameter(last.pre)
                            /\ GetCanDivide(last.pre)) =>
     /\ Len(container) = last.size
     /\ GetCanDivide(Mother) = FALSE

\* C4: a TransitAmplifying Run entered on a type-2 agent appends a daughter
\* with can_divide true, of type 2 when diameter < 8 and of type 3 when
\* 8 <= diameter < 10.
C4_TransitAmplifyingDaughter ==
  (RanOn("TransitAmplifying", kTransitAmplifying)
      /\ GetDiameter(last.pre) < 10) =>
     /\ Divided
     /\ GetCanDivide(Daughter) = TRUE
     /\ GetCellType(Daughter) = IF GetDiameter(last.pre) < 8
                                  THEN kTransitAmplifying
                                  ELSE kDifferentiated

\* C5: a TransitAmplifying Run on a type-2 agent of diameter >= 10 appends
\* no agent and leaves the agent's own can_divide false (stated for the
\* agents that could still divide and for the calls that read the diameter
\* the agent entered with, so that it rests neither on C6 nor on what the
\* division does to the diameter).
C5_TransitAmplifyingDeactivationNoDaughter ==
  (RanOn("TransitAmplifying", kTransitAmplifying)
      /\ GetDiameter(last.pre) >= 10
      /\ last.read = GetDiameter(last.pre)
      /\ GetCanDivide(last.pre)) =>
     /\ Len(container) = last.size
     /\ GetCanDivide(Mother) = FALSE

\* C6: a StemCell or TransitAmplifying Run entered on an agent whose
\* can_divide is false appends no agent, whatever the diameter (stated for
\* the calls that read the diameter the agent entered with).
C6_NoDivisionOnceInactive ==
  (last.bm \in {"StemCell", "TransitAmplifying"}
      /\ GetCanDivide(last.pre) = FALSE
      /\ last.read = GetDiameter(last.pre)) =>
     Len(container) = last.size

\* C7: a DifferentiatedCell Run appends no agent, for any diameter, type and
\* can_divide of the agent: the container has the size it had.
C7_DifferentiatedNeverDivides ==
  (last.bm = "DifferentiatedCell") => Len(container) = last.size

C7_Witness ==
  /\ last.bm = "DifferentiatedCell"
  /\ GetDiameter(last.pre) > 10
  /\ GetCellType(last.pre) = kStem
  /\ GetCanDivide(last.pre)
  /\ GetCellType(Mother) = kDifferentiated

\* C8: after the step over n seeded agents the population holds 2n agents,
\* all of type 1 and all with can_divide true, the seeded mothers included.
C8_SeedThenStep ==
  (pc = "sim" /\ steps = 1) =>
     /\ Len(container) = 2 * num_cells
     /\ \A k \in 1 .. Len(container) :
          /\ GetCellType(container[k]) = kStem
          /\ GetCanDivide(container[k]) = TRUE

\* C9: MyCellCreator(min, max, count, builder) with count >= 0 and
\* min <= max leaves exactly count agents in the container, each built from
\* a position with min <= x <= max, min <= y <= max and z = 0.
C9_SeedCountAndPositions ==
  (min <= max) =>
    /\ \A k \in 1 .. i :
         /\ container[k].position[1] \in min .. max
         /\ container[k].position[2] \in min .. max
         /\ container[k].position[3] = 0
    /\ (pc = "sim" /\ steps = 0) =>
         (i = num_cells /\ Len(container) = num_cells)

C9_Witness ==
  /\ pc = "sim"
  /\ steps = 0
  /\ min < max
  /\ Len(container) = MaxCells
  /\ container[1].position = <<min, max, 0>>
  /\ container[2].position = <<max, min, 0>>

\* C10: the batch commit of MyCellCreator runs exactly once and only after
\* all count agents were pushed (none is pushed after it, none between two
\* pushes), and with count = 0 it still runs and commits an empty population.
C10_SingleCommitAfterAllPushes ==
  /\ i <= num_cells
  /\ commits <= 1
  /\ (commits = 0) <=> (pc = "create")
  /\ (commits = 0) => (committed = 0)
  /\ (commits = 1) => (i = num_cells)
  /\ (pc = "sim" /\ steps = 0) =>
       (committed = num_cells /\ Len(container) = committed)

C10_Witness ==
  /\ commits = 1
  /\ num_cells >= 2
  /\ i = num_cells
  /\ committed = num_cells

\* C11: a MyCellCreator call with min > max (or a negative count) is
\* rejected and leaves the population as it was: no agent is pushed and no
\* agent is committed.
C11_InvalidSeedRejected ==
  (min > max) => (Len(container) = 0 /\ committed = 0)

\* C12: DifferentiatedCell Run is idempotent: a second Run at the same
\* diameter leaves the agent's type and can_divide as the first Run left
\* them, and after a Run at diameter > 10 the type is 3.
C12_DifferentiatedIdempotent ==
  (last.bm = "DifferentiatedCell") =>
     /\ DifferentiatedCell_Run(container, last.agent) = container
     /\ (GetDiameter(last.pre) > 10) =>
          (GetCellType(Mother) = kDifferentiated)
     /\ (calls >= 2 /\ grows = 0 /\ Len(container) = 1) =>
          /\ GetCellType(Mother) = GetCellType(last.pre)
          /\ GetCanDivide(Mother) = GetCanDivide(last.pre)

\* the second of two Runs at diameter 11 on the one agent
C12_Witness ==
  /\ last.bm = "DifferentiatedCell"
  /\ calls = 2
  /\ grows = 0
  /\ Len(container) = 1
  /\ GetDiameter(last.pre) = 11
  /\ GetCellType(last.pre) = kDifferentiated
  /\ GetCanDivide(last.pre)
  /\ Mother = last.pre

\* C13: lineage is monotonic: a Run call never lowers the type code of the
\* agent it runs on, and the daughter it leaves has a type code greater than
\* or equal to its mother's.
C13_LineageMonotonic ==
  (last.bm \in Modules) =>
     /\ GetCellType(Mother) >= GetCellType(last.pre)
     /\ Divided => (GetCellType(Daughter) >= GetCellType(Mother))

\* The module that goes with a type code.
ModuleOf(t) ==
  CASE t = kStem -> "StemCell"
    [] t = kTransitAmplifying -> "TransitAmplifying"
    [] t = kDifferentiated -> "DifferentiatedCell"
    [] OTHER -> "none"

\* C14: in every state reachable from the seeded population, the module
\* attached to each agent, daughters included, is the one of its type.
C14_ModuleMatchesType ==
  \A k \in 1 .. Len(container) :
     container[k].bm = ModuleOf(GetCellType(container[k]))

\* C15: from the seeded population, with the diameters growing over the
\* steps, the lineage goes all the way: some agent comes to have type 3.
C15_ReachesDifferentiated ==
  <>(\E k \in 1 .. Len(container) :
        GetCellType(container[k]) = kDifferentiated)

\* What holds instead of C15: no agent descended from the seeded population
\* ever has type 3.
C15_NeverDifferentiated ==
  \A k \in 1 .. Len(container) :
     GetCellType(container[k]) # kDifferentiated

\* C16: every agent in every reachable state, seeded or born of a division,
\* has a type code of {1, 2, 3}.
C16_TypeCodeInRange ==
  \A k \in 1 .. Len(container) : GetCellType(container[k]) \in CellTypes

\* C17: the daughter of every division has had its can_divide assigned by
\* the module before Run returns; the modules assign only true, so no
\* daughter is left with a false flag copied from its mother.
C17_DaughterFlagAssigned ==
  (last.bm \in {"StemCell", "TransitAmplifying"} /\ Divided) =>
     (GetCanDivide(Daughter) = TRUE)

\* The container the step would have left had its two calls been made in
\* the other order, each division leaving what it left.
Reordered ==
  LET o == last.order
  IN  Run(Run(last.start, o[2].agent, o[2].u, o[2].d),
          o[1].agent, o[1].u, o[1].d)

DaughterCount(c, x) == Cardinality({k \in 3 .. Len(c) : c[k] = x})

\* C18: a step over two distinct agents leaves the same two agents (type,
\* can_divide and every other field) and the same daughters, counted with
\* multiplicity, whichever of the two Run calls is made first.
C18_ScheduleIndependent ==
  (pc = "pair" /\ todo = {}) =>
     LET r == Reordered
     IN  /\ Len(r) = Len(container)
         /\ \A k \in 1 .. 2 : r[k] = container[k]
         /\ \A k \in 3 .. Len(container) :
               DaughterCount(r, container[k])
                 = DaughterCount(container, container[k])

C18_Witness ==
  /\ pc = "pair"
  /\ todo = {}
  /\ Len(container) = 4
  /\ container[3] # container[4]
  /\ GetCanDivide(container[1]) # GetCanDivide(last.start[1])
  /\ Reordered # container

\* C19: no step sets the can_divide of an agent that exists before it from
\* false to true; true is only ever assigned to an agent the step creates.
C19_CanDivideOneWay ==
  [][\A k \in 1 .. Len(container) :
        (~GetCanDivide(container[k])) => ~GetCanDivide(container'[k])]_vars

C19_Witness ==
  /\ calls = 2
  /\ last.bm = "StemCell"
  /\ ~GetCanDivide(last.pre)
  /\ ~GetCanDivide(Mother)
  /\ Divided
  /\ GetCanDivide(Daughter)

====
